---- MODULE Spec2Model ----
(***************************************************************************)
(* nsTObserverArray_base: the registry of live iterators of an observer    *)
(* array (an intrusive singly-linked list rooted at mIterators) and the    *)
(* two notifications that keep the iterators' positions right while the    *)
(* array is mutated: AdjustIterators and ClearIterators                    *)
(* (xpcom/ds/nsTObserverArray.cpp); and the lookup tables of ASCIIMask     *)
(* (xpcom/string/nsASCIIMask.cpp).                                         *)
(*                                                                         *)
(* The specifications share the variables:                                 *)
(*   SpecCalls      the two notifications as functions of a registry: Init *)
(*                  draws a registry and one call is applied to it;        *)
(*   SpecSequences  the same beside an empty or a full array, with a call  *)
(*                  AdjustIterators(_, -1) after AdjustIterators(_, 1);    *)
(*   SpecWalk       the two notifications one loop iteration per step;     *)
(*   SpecMask       a byte looked up in the four tables of ASCIIMask;      *)
(*   Spec           an observer array with forward iterators, whose        *)
(*                  mutators call the notifications as the container does; *)
(*                  lastCall records each operation and the state it met;  *)
(*   SpecIteration  the same array and operations, recording what the      *)
(*                  observed iterator returns;                             *)
(*   SpecRemovals   the same array and operations, recording the elements  *)
(*                  removed at or before the observed iterator.            *)
(* The last three differ only in the history they record (watch): the      *)
(* array, the registry and the operations are the same.                    *)
(***************************************************************************)
EXTENDS Integers, Sequences, FiniteSets, TLC

\* ------------------------------------------------------------- bounds
\* Elements ever stored in the array (each insertion stores a fresh one).
MaxElems == 4
\* Iterators linked at once in Spec.
MaxLive == 1
\* Iterators linked in a registry drawn by SpecCalls.
NumIters == 2
\* Largest position and modified position drawn by SpecCalls.
MaxPos == 3
\* Width of index_type (size_t) in the model; positions are kept modulo 2^IndexBits.
IndexBits == 16
\* Loop bodies counted per iterator in one walk; the count stops there.
MaxVisits == 2

\* ------------------------------------------------------------- values
Null == 0
NoElem == 0
Iters == 1..(IF NumIters > MaxLive THEN NumIters ELSE MaxLive)
IndexMod == 2^IndexBits
\* Adjustments a caller may pass: the two of the contract and two outside it.
Adjustments == {-2, -1, 1, 2}
\* The iterators whose iteration the history variables record.
Observed == {1}

VARIABLES
    mArray,      \* the array's elements, first to last
    nextElem,    \* the next fresh element
    mIterators,  \* nsTObserverArray_base::mIterators, the registry's head
    mNext,       \* Iterator_base::mNext of every iterator
    mPosition,   \* Iterator_base::mPosition of every iterator
    live,        \* the iterators created and not yet destroyed
    walk,        \* a notification in progress: its local iter and where it stands
    lookup,      \* a byte and what the masks of nsASCIIMask say of it
    watch,       \* which history variables this run records
    mozDebug,    \* the build: TRUE when MOZ_ASSERT is compiled in (DEBUG)
    aborted,     \* the process was ended by a failed assertion
    yielded,     \* history: the elements each observed iterator returned, in order,
                 \* since they were last stored in the array
    pending,     \* history: the elements at or after its start when it was created
    removed,     \* history: <<e, n>> for each e removed at or before it, n its yields then
    insCtx,      \* history: the last insertion before it, and what it returned next
    lastCall     \* history: the last operation and the state it was applied to

vars == <<mArray, nextElem, mIterators, mNext, mPosition, live, walk, lookup, watch,
          mozDebug, aborted,
          yielded, pending, removed, insCtx, lastCall>>

\* ------------------------------------------------------------- helpers
Range(s) == {s[i] : i \in 1..Len(s)}

Count(e, s) == Cardinality({i \in 1..Len(s) : s[i] = e})

\* The element at zero-based index p, NoElem past the end.
ElemAt(arr, p) == IF p < Len(arr) THEN arr[p + 1] ELSE NoElem

\* The zero-based index of e in arr (e occurs once).
IndexOf(arr, e) == (CHOOSE i \in 1..Len(arr) : arr[i] = e) - 1

\* The registry as the walk from iter sees it: the iterators in link order.
RECURSIVE Chain(_, _)
Chain(iter, next) ==
    IF iter = Null THEN <<>> ELSE <<iter>> \o Chain(next[iter], next)

Linked == Range(Chain(mIterators, mNext))

\* The links of a registry holding the iterators of seq in that order.
HeadOf(seq) == IF Len(seq) = 0 THEN Null ELSE seq[1]
NextOf(seq) ==
    [c \in Iters |->
        IF \E i \in 1..(Len(seq) - 1) : seq[i] = c
        THEN seq[(CHOOSE i \in 1..(Len(seq) - 1) : seq[i] = c) + 1]
        ELSE Null]

\* Every order of the iterators of S.
Orders(S) ==
    {s \in [1..Cardinality(S) -> S] : \A i, j \in 1..Cardinality(S) : s[i] = s[j] => i = j}

\* ------------------------------------------------------------- the code
\* MOZ_ASSERT(cond): ends the process when the build compiles assertions in and
\* cond is false; in other builds the check is compiled out.
MozAssertAborts_Never(debug, cond) == FALSE
MozAssertAborts(debug, cond) == debug /\ ~cond

\* The loop body of AdjustIterators for one iterator at position p.
AdjustPosition_AtOrAfter(p, aModPos, aAdjustment) ==
    IF p >= aModPos THEN (p + aAdjustment) % IndexMod ELSE p
AdjustPosition_Unconditional(p, aModPos, aAdjustment) ==
    (p + aAdjustment) % IndexMod
AdjustPosition_Forgotten(p, aModPos, aAdjustment) == p
AdjustPosition_Increment(p, aModPos, aAdjustment) ==
    IF p > aModPos THEN (p + 1) % IndexMod ELSE p
AdjustPosition_Below(p, aModPos, aAdjustment) ==
    IF p < aModPos THEN (p + aAdjustment) % IndexMod ELSE p
AdjustPosition(p, aModPos, aAdjustment) ==
    IF p > aModPos THEN (p + aAdjustment) % IndexMod ELSE p

\* The while loop of AdjustIterators from iter on.
AdjustWalk_HeadOnly(iter, next, pos, aModPos, aAdjustment) ==
    IF iter = Null THEN pos
    ELSE [pos EXCEPT ![iter] = AdjustPosition(pos[iter], aModPos, aAdjustment)]
RECURSIVE AdjustWalk_StopsEarly(_, _, _, _, _)
AdjustWalk_StopsEarly(iter, next, pos, aModPos, aAdjustment) ==
    IF iter = Null \/ pos[iter] <= aModPos THEN pos
    ELSE AdjustWalk_StopsEarly(next[iter], next,
             [pos EXCEPT ![iter] = AdjustPosition(pos[iter], aModPos, aAdjustment)],
             aModPos, aAdjustment)
RECURSIVE AdjustWalk(_, _, _, _, _)
AdjustWalk(iter, next, pos, aModPos, aAdjustment) ==
    IF iter = Null THEN pos
    ELSE AdjustWalk(next[iter], next,
             [pos EXCEPT ![iter] = AdjustPosition(pos[iter], aModPos, aAdjustment)],
             aModPos, aAdjustment)

\* The while loop of ClearIterators from iter on.
RECURSIVE ClearWalk_HeadOnly(_, _, _)
ClearWalk_HeadOnly(iter, next, pos) ==
    IF iter = Null THEN pos ELSE [pos EXCEPT ![iter] = 0]
RECURSIVE ClearWalk(_, _, _)
ClearWalk(iter, next, pos) ==
    IF iter = Null THEN pos
    ELSE ClearWalk(next[iter], next, [pos EXCEPT ![iter] = 0])

\* The registry AdjustIterators leaves: the walk copies mIterators into its local
\* iter and reads mNext, and the only field it writes is iter->mPosition.
AdjustedRegistry_WalksMember(head, next, pos, aModPos, aAdjustment) ==
    [mIterators |-> Null, mNext |-> next,
     mPosition |-> AdjustWalk(head, next, pos, aModPos, aAdjustment)]
AdjustedRegistry(head, next, pos, aModPos, aAdjustment) ==
    [mIterators |-> head, mNext |-> next,
     mPosition |-> AdjustWalk(head, next, pos, aModPos, aAdjustment)]

\* The registry ClearIterators leaves, likewise.
ClearedRegistry_WalksMember(head, next, pos) ==
    [mIterators |-> Null, mNext |-> next, mPosition |-> ClearWalk(head, next, pos)]
ClearedRegistry(head, next, pos) ==
    [mIterators |-> head, mNext |-> next, mPosition |-> ClearWalk(head, next, pos)]

\* nsTObserverArray_base::AdjustIterators on the registry of this state.
AdjustIterators(aModPos, aAdjustment) ==
    IF MozAssertAborts(mozDebug, aAdjustment = -1 \/ aAdjustment = 1)
    THEN /\ aborted' = TRUE
         /\ UNCHANGED <<mIterators, mNext, mPosition>>
    ELSE LET after == AdjustedRegistry(mIterators, mNext, mPosition, aModPos, aAdjustment)
         IN  /\ aborted' = aborted
             /\ mIterators' = after.mIterators
             /\ mNext' = after.mNext
             /\ mPosition' = after.mPosition

\* nsTObserverArray_base::ClearIterators on the registry of this state.
ClearIterators ==
    LET after == ClearedRegistry(mIterators, mNext, mPosition)
    IN  /\ aborted' = aborted
        /\ mIterators' = after.mIterators
        /\ mNext' = after.mNext
        /\ mPosition' = after.mPosition

\* ------------------------------------------------------------- the array
\* nsTArray's insertion of e at zero-based index i, and removal of index i.
InsertAt(arr, i, e) == SubSeq(arr, 1, i) \o <<e>> \o SubSeq(arr, i + 1, Len(arr))
RemoveAt_Last(arr, i) == SubSeq(arr, 1, Len(arr) - 1)
RemoveAt(arr, i) == SubSeq(arr, 1, i) \o SubSeq(arr, i + 2, Len(arr))

\* The sequence s without the element e.
Without(s, e) == SelectSeq(s, LAMBDA x : x # e)

\* ------------------------------------------------------------- nsASCIIMask
\* The codes of the character literals the predicates compare with.
CharFF == 12
CharTab == 9
CharCR == 13
CharLF == 10
CharSpace == 32
Char0 == 48
Char1 == 49
Char2 == 50
Char3 == 51
Char4 == 52
Char5 == 53
Char6 == 54
Char7 == 55
Char8 == 56
Char9 == 57

\* Entries of an ASCIIMaskArray: one per code of the ASCII range.
MaskSize == 128

\* CreateASCIIMask(Test) is the table that holds, at every index of the ASCII
\* range, what Test says of it.

TestWhitespace_NoFormFeed(c) ==
    c = CharTab \/ c = CharCR \/ c = CharLF \/ c = CharSpace
TestWhitespace(c) ==
    c = CharFF \/ c = CharTab \/ c = CharCR \/ c = CharLF \/ c = CharSpace
sWhitespaceMask == [i \in 0..(MaskSize - 1) |-> TestWhitespace(i)]

TestCRLF(c) == c = CharCR \/ c = CharLF
sCRLFMask == [i \in 0..(MaskSize - 1) |-> TestCRLF(i)]

TestCRLFTab(c) == c = CharCR \/ c = CharLF \/ c = CharTab
sCRLFTabMask == [i \in 0..(MaskSize - 1) |-> TestCRLFTab(i)]

TestZeroToNine(c) ==
    c = Char0 \/ c = Char1 \/ c = Char2 \/ c = Char3 \/ c = Char4 \/ c = Char5 \/
    c = Char6 \/ c = Char7 \/ c = Char8 \/ c = Char9
sZeroToNineMask == [i \in 0..(MaskSize - 1) |-> TestZeroToNine(i)]

MaskWhitespace == sWhitespaceMask
MaskCRLF == sCRLFMask
MaskCRLFTab == sCRLFTabMask
Mask0to9 == sZeroToNineMask

\* ------------------------------------------------------------- history
\* No notification in progress, no byte looked up.
NoWalk == [pc |-> "idle", op |-> "none", iter |-> Null, modPos |-> 0, adj |-> 0,
           visits |-> [c \in Iters |-> 0]]
NoLookup == [c |-> 0, asked |-> {}, whitespace |-> FALSE, crlf |-> FALSE,
             crlfTab |-> FALSE, zeroToNine |-> FALSE]

\* No call before the last one.
NoFirst == [op |-> "none", modPos |-> 0, adj |-> 0, pre |-> [c \in Iters |-> 0]]

NoCall ==
    [op |-> "none", modPos |-> 0, adj |-> 0, pre |-> [c \in Iters |-> 0],
     preArr |-> <<>>, head |-> Null, next |-> [c \in Iters |-> Null],
     iter |-> Null, elem |-> NoElem, first |-> NoFirst]

NoCtx == [phase |-> "none", prePos |-> 0, postPos |-> 0, atP |-> NoElem,
          atP1 |-> NoElem, elem |-> NoElem]

Call(op, aModPos, aAdjustment, c, e) ==
    [op |-> op, modPos |-> aModPos, adj |-> aAdjustment, pre |-> mPosition,
     preArr |-> mArray, head |-> mIterators, next |-> mNext, iter |-> c, elem |-> e,
     first |-> NoFirst]

\* ------------------------------------------------------------- SpecCalls
\* A registry of n iterators in any order at any positions, in either build.
InitCalls ==
    /\ mArray = <<>>
    /\ nextElem = 1
    /\ watch = {"calls"}
    /\ \E n \in 0..NumIters :
         \E seq \in Orders(1..n) :
           /\ mIterators = HeadOf(seq)
           /\ mNext = NextOf(seq)
           /\ \E pos \in [1..n -> 0..MaxPos] :
                mPosition = [c \in Iters |-> IF c \in 1..n THEN pos[c] ELSE 0]
           /\ live = 1..n
    /\ walk = NoWalk
    /\ lookup = NoLookup
    /\ mozDebug \in BOOLEAN
    /\ aborted = FALSE
    /\ yielded = [c \in Iters |-> <<>>]
    /\ pending = [c \in Iters |-> {}]
    /\ removed = [c \in Iters |-> {}]
    /\ insCtx = [c \in Iters |-> NoCtx]
    /\ lastCall = NoCall

CallAdjustIterators(aModPos, aAdjustment) ==
    /\ lastCall.op = "none"
    /\ AdjustIterators(aModPos, aAdjustment)
    /\ lastCall' = Call("AdjustIterators", aModPos, aAdjustment, Null, NoElem)
    /\ UNCHANGED <<walk, lookup, live, mArray, nextElem, watch, mozDebug, yielded, pending,
                   removed, insCtx>>

CallClearIterators ==
    /\ lastCall.op = "none"
    /\ ClearIterators
    /\ lastCall' = Call("ClearIterators", 0, 0, Null, NoElem)
    /\ UNCHANGED <<walk, lookup, live, mArray, nextElem, watch, mozDebug, yielded, pending,
                   removed, insCtx>>

NextCalls ==
    \/ \E aModPos \in 0..MaxPos : \E aAdjustment \in Adjustments :
         CallAdjustIterators(aModPos, aAdjustment)
    \/ CallClearIterators

SpecCalls == InitCalls /\ [][NextCalls]_vars

\* ------------------------------------------------------------- SpecSequences
\* The same registries beside an empty or a full array, receiving one call or
\* AdjustIterators(_, 1) and then AdjustIterators(_, -1), as an insertion that
\* is followed by a removal notifies.
InitSequences ==
    /\ \E len \in {0, MaxElems} :
         /\ mArray = [i \in 1..len |-> i]
         /\ nextElem = len + 1
    /\ watch = {"calls"}
    /\ \E n \in 0..NumIters :
         \E seq \in Orders(1..n) :
           /\ mIterators = HeadOf(seq)
           /\ mNext = NextOf(seq)
           /\ \E pos \in [1..n -> 0..MaxPos] :
                mPosition = [c \in Iters |-> IF c \in 1..n THEN pos[c] ELSE 0]
           /\ live = 1..n
    /\ walk = NoWalk
    /\ lookup = NoLookup
    /\ mozDebug \in BOOLEAN
    /\ aborted = FALSE
    /\ yielded = [c \in Iters |-> <<>>]
    /\ pending = [c \in Iters |-> {}]
    /\ removed = [c \in Iters |-> {}]
    /\ insCtx = [c \in Iters |-> NoCtx]
    /\ lastCall = NoCall

\* AdjustIterators(aModPos, -1) right after a call AdjustIterators(_, 1).
CallAdjustIteratorsBack(aModPos) ==
    /\ lastCall.op = "AdjustIterators"
    /\ lastCall.first.op = "none"
    /\ lastCall.adj = 1
    /\ ~aborted
    /\ AdjustIterators(aModPos, -1)
    /\ lastCall' = [Call("AdjustIterators", aModPos, -1, Null, NoElem) EXCEPT
                      !.first = [op |-> lastCall.op, modPos |-> lastCall.modPos,
                                 adj |-> lastCall.adj, pre |-> lastCall.pre]]
    /\ UNCHANGED <<walk, lookup, live, mArray, nextElem, watch, mozDebug, yielded, pending,
                   removed, insCtx>>

NextSequences ==
    \/ \E aModPos \in 0..MaxPos : \E aAdjustment \in Adjustments :
         CallAdjustIterators(aModPos, aAdjustment)
    \/ CallClearIterators
    \/ \E aModPos \in 0..MaxPos : CallAdjustIteratorsBack(aModPos)

SpecSequences == InitSequences /\ [][NextSequences]_vars

\* ------------------------------------------------------------- SpecWalk
\* The same calls, one loop iteration at a time: walk.iter is the local iter of
\* the call in progress and walk.visits counts the loop bodies run per iterator.
InitWalk == InitCalls

\* iter = iter->mNext, the last statement of both loop bodies.
LoopAdvance_Stays(iter, next) == iter
LoopAdvance(iter, next) == next[iter]

\* AdjustIterators up to its loop: the assertion, then iter = mIterators.
BeginAdjustIterators(aModPos, aAdjustment) ==
    /\ walk.pc = "idle"
    /\ IF MozAssertAborts(mozDebug, aAdjustment = -1 \/ aAdjustment = 1)
       THEN /\ aborted' = TRUE
            /\ walk' = [walk EXCEPT !.pc = "aborted", !.op = "AdjustIterators",
                                    !.modPos = aModPos, !.adj = aAdjustment]
       ELSE /\ aborted' = aborted
            /\ walk' = [walk EXCEPT !.pc = "loop", !.op = "AdjustIterators",
                                    !.iter = mIterators,
                                    !.modPos = aModPos, !.adj = aAdjustment]
    /\ lastCall' = Call("AdjustIterators", aModPos, aAdjustment, Null, NoElem)
    /\ UNCHANGED <<lookup, live, mArray, nextElem, mIterators, mNext, mPosition, watch,
                   mozDebug, yielded, pending, removed, insCtx>>

\* ClearIterators up to its loop: iter = mIterators.
BeginClearIterators ==
    /\ walk.pc = "idle"
    /\ walk' = [walk EXCEPT !.pc = "loop", !.op = "ClearIterators", !.iter = mIterators]
    /\ lastCall' = Call("ClearIterators", 0, 0, Null, NoElem)
    /\ UNCHANGED <<lookup, live, mArray, nextElem, mIterators, mNext, mPosition, watch,
                   mozDebug, aborted, yielded, pending, removed, insCtx>>

\* One iteration of while (iter): the body writes iter->mPosition and advances iter.
WalkStep ==
    /\ walk.pc = "loop"
    /\ walk.iter # Null
    /\ mPosition' = [mPosition EXCEPT ![walk.iter] =
                        IF walk.op = "AdjustIterators"
                        THEN AdjustPosition(mPosition[walk.iter], walk.modPos, walk.adj)
                        ELSE 0]
    /\ walk' = [walk EXCEPT !.iter = LoopAdvance(walk.iter, mNext),
                            !.visits[walk.iter] =
                                IF @ < MaxVisits THEN @ + 1 ELSE MaxVisits]
    /\ UNCHANGED <<lookup, live, mArray, nextElem, mIterators, mNext, watch, mozDebug,
                   aborted, yielded, pending, removed, insCtx, lastCall>>

\* while (iter) finds iter null and the call returns.
WalkReturn ==
    /\ walk.pc = "loop"
    /\ walk.iter = Null
    /\ walk' = [walk EXCEPT !.pc = "done"]
    /\ UNCHANGED <<lookup, live, mArray, nextElem, mIterators, mNext, mPosition, watch,
                   mozDebug, aborted, yielded, pending, removed, insCtx, lastCall>>

NextWalk ==
    \/ \E aModPos \in 0..MaxPos : \E aAdjustment \in Adjustments :
         BeginAdjustIterators(aModPos, aAdjustment)
    \/ BeginClearIterators
    \/ WalkStep
    \/ WalkReturn

\* Both calls are synchronous and run to completion: a loop that can take its
\* next iteration, or return, does.
SpecWalk == InitWalk /\ [][NextWalk]_vars /\ WF_vars(WalkStep) /\ WF_vars(WalkReturn)

\* ------------------------------------------------------------- SpecMask
\* A byte of the ASCII range, looked up in the tables the accessors return.
InitMask ==
    /\ \E c \in 0..(MaskSize - 1) : lookup = [NoLookup EXCEPT !.c = c]
    /\ mArray = <<>>
    /\ nextElem = 1
    /\ watch = {}
    /\ mIterators = Null
    /\ mNext = [c \in Iters |-> Null]
    /\ mPosition = [c \in Iters |-> 0]
    /\ live = {}
    /\ walk = NoWalk
    /\ mozDebug = TRUE
    /\ aborted = FALSE
    /\ yielded = [c \in Iters |-> <<>>]
    /\ pending = [c \in Iters |-> {}]
    /\ removed = [c \in Iters |-> {}]
    /\ insCtx = [c \in Iters |-> NoCtx]
    /\ lastCall = NoCall

LookupWhitespace ==
    /\ "MaskWhitespace" \notin lookup.asked
    /\ lookup' = [lookup EXCEPT !.asked = @ \cup {"MaskWhitespace"},
                                !.whitespace = MaskWhitespace[lookup.c]]
    /\ UNCHANGED <<mArray, nextElem, mIterators, mNext, mPosition, live, walk, watch,
                   mozDebug, aborted, yielded, pending, removed, insCtx, lastCall>>

LookupCRLF ==
    /\ "MaskCRLF" \notin lookup.asked
    /\ lookup' = [lookup EXCEPT !.asked = @ \cup {"MaskCRLF"},
                                !.crlf = MaskCRLF[lookup.c]]
    /\ UNCHANGED <<mArray, nextElem, mIterators, mNext, mPosition, live, walk, watch,
                   mozDebug, aborted, yielded, pending, removed, insCtx, lastCall>>

LookupCRLFTab ==
    /\ "MaskCRLFTab" \notin lookup.asked
    /\ lookup' = [lookup EXCEPT !.asked = @ \cup {"MaskCRLFTab"},
                                !.crlfTab = MaskCRLFTab[lookup.c]]
    /\ UNCHANGED <<mArray, nextElem, mIterators, mNext, mPosition, live, walk, watch,
                   mozDebug, aborted, yielded, pending, removed, insCtx, lastCall>>

Lookup0to9 ==
    /\ "Mask0to9" \notin lookup.asked
    /\ lookup' = [lookup EXCEPT !.asked = @ \cup {"Mask0to9"},
                                !.zeroToNine = Mask0to9[lookup.c]]
    /\ UNCHANGED <<mArray, nextElem, mIterators, mNext, mPosition, live, walk, watch,
                   mozDebug, aborted, yielded, pending, removed, insCtx, lastCall>>

NextMask ==
    \/ LookupWhitespace
    \/ LookupCRLF
    \/ LookupCRLFTab
    \/ Lookup0to9

SpecMask == InitMask /\ [][NextMask]_vars

\* ------------------------------------------------------------- Spec
\* An empty observer array with no iterator, in a run that records the histories w.
InitWatching(w) ==
    /\ mArray = <<>>
    /\ nextElem = 1
    /\ watch = w
    /\ mIterators = Null
    /\ mNext = [c \in Iters |-> Null]
    /\ mPosition = [c \in Iters |-> 0]
    /\ live = {}
    /\ walk = NoWalk
    /\ lookup = NoLookup
    /\ mozDebug = TRUE
    /\ aborted = FALSE
    /\ yielded = [c \in Iters |-> <<>>]
    /\ pending = [c \in Iters |-> {}]
    /\ removed = [c \in Iters |-> {}]
    /\ insCtx = [c \in Iters |-> NoCtx]
    /\ lastCall = NoCall

\* An operation that is no notification: only its name, iterator and element are kept.
Note(op, c, e) ==
    [op |-> op, modPos |-> 0, adj |-> 0, pre |-> [d \in Iters |-> 0],
     preArr |-> <<>>, head |-> Null, next |-> [d \in Iters |-> Null],
     iter |-> c, elem |-> e, first |-> NoFirst]

\* The history h is recorded for iterator c in this run.
Watched(h, c) == h \in watch /\ c \in Observed
\* What lastCall becomes: the operation when calls are recorded.
Recorded(call) == IF "calls" \in watch THEN call ELSE NoCall

\* InsertElementAt(aIndex, item): the array inserts, then AdjustIterators(aIndex, 1).
InsertElementAt(aIndex) ==
    /\ ~aborted
    /\ nextElem <= MaxElems
    /\ mArray' = InsertAt(mArray, aIndex, nextElem)
    /\ nextElem' = nextElem + 1
    /\ AdjustIterators(aIndex, 1)
    /\ insCtx' = [c \in Iters |->
                    IF c \in Linked /\ Watched("insertions", c) /\ aIndex < mPosition[c]
                    THEN [phase |-> "inserted", prePos |-> mPosition[c],
                          postPos |-> mPosition'[c],
                          atP |-> ElemAt(mArray, mPosition[c]),
                          atP1 |-> ElemAt(mArray, mPosition[c] + 1),
                          elem |-> NoElem]
                    ELSE NoCtx]
    /\ lastCall' = Recorded(Call("InsertElementAt", aIndex, 1, Null, nextElem))
    /\ UNCHANGED <<walk, lookup, live, watch, mozDebug, yielded, pending, removed>>

\* RemoveElementAt(aIndex): the array removes, then AdjustIterators(aIndex, -1).
RemoveElementAt(aIndex) ==
    /\ ~aborted
    /\ mArray' = RemoveAt(mArray, aIndex)
    /\ AdjustIterators(aIndex, -1)
    /\ removed' = [c \in Iters |->
                     IF c \in Linked /\ Watched("removals", c) /\ aIndex <= mPosition[c]
                     THEN removed[c] \cup
                          {<<ElemAt(mArray, aIndex), Count(ElemAt(mArray, aIndex), yielded[c])>>}
                     ELSE removed[c]]
    /\ yielded' = [c \in Iters |-> Without(yielded[c], ElemAt(mArray, aIndex))]
    /\ insCtx' = [c \in Iters |-> NoCtx]
    /\ lastCall' = Recorded(Call("RemoveElementAt", aIndex, -1, Null, ElemAt(mArray, aIndex)))
    /\ UNCHANGED <<walk, lookup, live, nextElem, watch, mozDebug, pending>>

\* Clear(): the array drops every element, then ClearIterators().
Clear ==
    /\ ~aborted
    /\ mArray' = <<>>
    /\ ClearIterators
    /\ yielded' = [c \in Iters |-> <<>>]
    /\ insCtx' = [c \in Iters |-> NoCtx]
    /\ lastCall' = Recorded(Call("Clear", 0, 0, Null, NoElem))
    /\ UNCHANGED <<walk, lookup, live, nextElem, watch, mozDebug, pending, removed>>

\* A forward iterator is created at aPosition and links itself at the registry's head.
NewIterator(aPosition) ==
    /\ ~aborted
    /\ Cardinality(Linked) < MaxLive
    /\ LET c == CHOOSE d \in Iters \ Linked : \A o \in Iters \ Linked : d <= o
       IN /\ mPosition' = [mPosition EXCEPT ![c] = aPosition]
          /\ mNext' = [mNext EXCEPT ![c] = mIterators]
          /\ mIterators' = c
          /\ live' = live \cup {c}
          /\ yielded' = [yielded EXCEPT ![c] = <<>>]
          /\ pending' = [pending EXCEPT ![c] =
                            IF Watched("starts", c)
                            THEN {mArray[i] : i \in (aPosition + 1)..Len(mArray)}
                            ELSE {}]
          /\ removed' = [removed EXCEPT ![c] = {}]
          /\ insCtx' = [insCtx EXCEPT ![c] = NoCtx]
          /\ lastCall' = Recorded(Note("Iterator", c, NoElem))
    /\ UNCHANGED <<walk, lookup, mArray, nextElem, watch, mozDebug, aborted>>

\* Unlinking c from the list that starts at head: the link that leads to c, the
\* head or the next link of c's parent, is found by a scan and set to c's
\* successor; a list that does not lead to c has no such link and keeps all of its
\* links.
Unlink_HeadAssumed(head, next, c) ==
    [mIterators |-> next[c], mNext |-> [next EXCEPT ![c] = Null]]
Unlink(head, next, c) ==
    IF head = c
    THEN [mIterators |-> next[c], mNext |-> [next EXCEPT ![c] = Null]]
    ELSE IF \E d \in Range(Chain(head, next)) : next[d] = c
    THEN [mIterators |-> head,
          mNext |-> [d \in Iters |->
                       IF d = c THEN Null
                       ELSE IF d \in Range(Chain(head, next)) /\ next[d] = c
                       THEN next[c] ELSE next[d]]]
    ELSE [mIterators |-> head, mNext |-> next]

\* An iterator is destroyed and unlinks itself from the registry.
DeleteIterator(c) ==
    /\ ~aborted
    /\ c \in live
    /\ LET after == Unlink(mIterators, mNext, c)
       IN  /\ mIterators' = after.mIterators
           /\ mNext' = after.mNext
    /\ live' = live \ {c}
    /\ mPosition' = [mPosition EXCEPT ![c] = 0]
    /\ yielded' = [yielded EXCEPT ![c] = <<>>]
    /\ pending' = [pending EXCEPT ![c] = {}]
    /\ removed' = [removed EXCEPT ![c] = {}]
    /\ insCtx' = [insCtx EXCEPT ![c] = NoCtx]
    /\ lastCall' = Recorded(Note("~Iterator", c, NoElem))
    /\ UNCHANGED <<walk, lookup, mArray, nextElem, watch, mozDebug, aborted>>

\* An iterator that is not linked, one already unlinked or one never linked, is
\* unlinked (again).
UnlinkIterator(c) ==
    /\ ~aborted
    /\ c \notin Linked
    /\ LET after == Unlink(mIterators, mNext, c)
       IN  /\ mIterators' = after.mIterators
           /\ mNext' = after.mNext
    /\ lastCall' = Recorded(Call("Unlink", 0, 0, c, NoElem))
    /\ UNCHANGED <<walk, lookup, live, mArray, nextElem, mPosition, watch, mozDebug, aborted,
                   yielded, pending, removed, insCtx>>

\* HasMore(): the forward iterator has an element left to return.
HasMore(c) == mPosition[c] < Len(mArray)

\* GetNext(): returns the element at mPosition and steps past it.
GetNext(c) ==
    /\ ~aborted
    /\ c \in Linked
    /\ HasMore(c)
    /\ mPosition' = [mPosition EXCEPT ![c] = mPosition[c] + 1]
    /\ yielded' = [yielded EXCEPT ![c] =
                      IF Watched("yields", c)
                      THEN Append(yielded[c], ElemAt(mArray, mPosition[c]))
                      ELSE <<>>]
    /\ insCtx' = [insCtx EXCEPT ![c] =
                     IF insCtx[c].phase = "inserted"
                     THEN [insCtx[c] EXCEPT !.phase = "yielded",
                                            !.elem = ElemAt(mArray, mPosition[c])]
                     ELSE NoCtx]
    /\ lastCall' = Recorded(Note("GetNext", c, ElemAt(mArray, mPosition[c])))
    /\ UNCHANGED <<walk, lookup, live, mArray, nextElem, mIterators, mNext, watch, mozDebug,
                   aborted, pending, removed>>

Next ==
    \/ \E aIndex \in 0..Len(mArray) : InsertElementAt(aIndex)
    \/ \E aIndex \in 0..(Len(mArray) - 1) : RemoveElementAt(aIndex)
    \/ Clear
    \/ \E aPosition \in 0..Len(mArray) : NewIterator(aPosition)
    \/ \E c \in Iters : DeleteIterator(c)
    \/ \E c \in Iters : UnlinkIterator(c)
    \/ \E c \in Iters : GetNext(c)

\* The container's operations, recording each operation and the state it met.
Init == InitWatching({"calls"})
Spec == Init /\ [][Next]_vars

\* The same operations, recording what the observed iteration returns.
InitIteration == InitWatching({"starts", "yields", "insertions"})
SpecIteration == InitIteration /\ [][Next]_vars

\* The same operations, recording what the observed iteration returns and which
\* elements were removed at or before it.
InitRemovals == InitWatching({"yields", "removals"})
SpecRemovals == InitRemovals /\ [][Next]_vars

\* ------------------------------------------------------------- claims
\* The position the rule of AdjustIterators gives an iterator that was at p.
Expected(p, aModPos, aAdjustment) == IF p > aModPos THEN p + aAdjustment ELSE p

\* The last operation was a notification of a single-element change.
Notified == lastCall.adj \in {1, -1}

\* C1: AdjustIterators(modPos, adj) with adj +1 or -1 leaves every linked iterator
\* at its position before the call plus adj when that position was strictly
\* greater than modPos, and at its position before the call otherwise.
C1_AdjustRule ==
    Notified =>
        /\ ~aborted
        /\ \A c \in Linked :
             mPosition[c] = Expected(lastCall.pre[c], lastCall.modPos, lastCall.adj)

\* Two iterators, one after the modified position and moved back, one at it and kept.
C1_Witness ==
    /\ lastCall.op = "AdjustIterators"
    /\ lastCall.adj = -1
    /\ \E c, d \in Linked :
         /\ lastCall.pre[c] > lastCall.modPos
         /\ mPosition[c] = lastCall.pre[c] - 1
         /\ lastCall.pre[d] = lastCall.modPos
         /\ mPosition[d] = lastCall.pre[d]

\* C6: ClearIterators sets the position of every linked iterator to 0, whatever
\* it was and however many iterators are linked.
C6_ClearResets ==
    lastCall.op = "ClearIterators" => \A c \in Linked : mPosition[c] = 0

\* Two iterators at different positions above 0, both reset.
C6_Witness ==
    /\ lastCall.op = "ClearIterators"
    /\ \E c, d \in Linked :
         /\ 0 < lastCall.pre[c]
         /\ lastCall.pre[c] < lastCall.pre[d]
         /\ mPosition[c] = 0
         /\ mPosition[d] = 0

\* The positions of a registry with c at position p and every other iterator d
\* of it at q[d].
PositionsWith(c, p, q) ==
    [d \in Iters |-> IF d = c THEN p ELSE IF d \in DOMAIN q THEN q[d] ELSE 0]

\* C9: the position of an iterator after AdjustIterators(modPos, adj) is the same
\* whichever other iterators are linked with it, wherever they are and in
\* whichever order the registry links them: it is decided by its own position
\* before the call, modPos and adj.
C9_Independent ==
    (lastCall.op = "AdjustIterators" /\ ~aborted) =>
        \A S \in SUBSET Linked :
          \A seq \in Orders(S) :
            LET head == HeadOf(seq)
                next == NextOf(seq)
            IN  \A c \in S :
                  \A q \in [S \ {c} -> 0..MaxPos] :
                    AdjustWalk(head, next, PositionsWith(c, lastCall.pre[c], q),
                               lastCall.modPos, lastCall.adj)[c] = mPosition[c]

\* The second iterator of the walk was moved although the first one was not.
C9_Witness ==
    /\ lastCall.op = "AdjustIterators"
    /\ ~aborted
    /\ Cardinality(Linked) >= 2
    /\ lastCall.pre[mIterators] <= lastCall.modPos
    /\ mPosition[mNext[mIterators]] # lastCall.pre[mNext[mIterators]]

\* C10 as claimed: AdjustIterators with an adjustment other than +1 or -1 fails
\* fast instead of returning.
C10_FailsFast ==
    (lastCall.op = "AdjustIterators" /\ lastCall.adj \notin {1, -1}) => aborted

\* C10: in a build that compiles MOZ_ASSERT in, AdjustIterators with an adjustment
\* other than +1 or -1 fails fast and moves no iterator; in a build that compiles
\* it out the call returns, having added the adjustment (modulo the width of
\* index_type) to every position greater than modPos.
C10_FailsFastInDebug ==
    (lastCall.op = "AdjustIterators" /\ lastCall.adj \notin {1, -1}) =>
        /\ aborted <=> mozDebug
        /\ aborted => \A c \in Linked : mPosition[c] = lastCall.pre[c]
        /\ ~aborted =>
             \A c \in Linked :
               mPosition[c] =
                 Expected(lastCall.pre[c], lastCall.modPos, lastCall.adj) % IndexMod

\* A debug build ended by a call with adjustment 2 on a registry it would have moved.
C10_Witness ==
    /\ lastCall.op = "AdjustIterators"
    /\ lastCall.adj = 2
    /\ mozDebug
    /\ aborted
    /\ \E c \in Linked : lastCall.pre[c] > lastCall.modPos

\* The last operation was a single-element insertion or removal of the array.
Mutated == lastCall.op \in {"InsertElementAt", "RemoveElementAt"}

\* C2: whatever single-element insertions, removals and advances are interleaved,
\* an iteration in progress returns each element that was ahead of it when it
\* started and is still in the array exactly once: never twice, and it has been
\* returned exactly when the iterator is past it, so that every such element has
\* been returned once the iterator has no more.
C2_ExactlyOnce ==
    \A c \in Linked \cap Observed :
      /\ \A e \in pending[c] :
           /\ Count(e, yielded[c]) <= 1
           /\ e \in Range(mArray) =>
                (Count(e, yielded[c]) = 1 <=> IndexOf(mArray, e) < mPosition[c])
      /\ ~HasMore(c) =>
           \A e \in pending[c] \cap Range(mArray) : Count(e, yielded[c]) = 1

\* An iteration that has returned two elements and has no more, over an array
\* that lost one of its first elements and gained a new one while it ran.
C2_Witness ==
    \E c \in Linked \cap Observed :
      /\ ~HasMore(c)
      /\ Len(yielded[c]) >= 2
      /\ pending[c] \cap Range(mArray) # {}
      /\ pending[c] \ Range(mArray) # {}
      /\ \E e \in Range(mArray) : \A o \in pending[c] : e > o

\* C3: an element removed at a position at or before an iterator's position is
\* not returned by that iterator after the removal: if it had not been returned
\* it never is, and if it had been it is not returned a second time.
C3_RemovedNotYielded ==
    \A c \in Linked \cap Observed :
      \A r \in removed[c] :
        /\ Count(r[1], yielded[c]) = 0
        /\ r[2] <= 1

\* One element removed after the iterator returned it, one removed before it
\* could, and the iterator has gone on to return the rest.
C3_Witness ==
    \E c \in Linked \cap Observed :
      /\ \E r \in removed[c] : r[2] = 0
      /\ \E r \in removed[c] : r[2] = 1
      /\ ~HasMore(c)
      /\ \E i \in 1..Len(yielded[c]) : yielded[c][i] \in Range(mArray)

\* C4 as claimed: an insertion at any m <= p moves an iterator at p forward by
\* one and a removal at any m <= p moves it back by one, so that it still points
\* at the element it pointed at before.
C4_AtOrBeforeMoves ==
    Mutated =>
        \A c \in Linked :
          lastCall.modPos <= lastCall.pre[c] =>
            /\ mPosition[c] = lastCall.pre[c] + lastCall.adj
            /\ ElemAt(mArray, mPosition[c]) = ElemAt(lastCall.preArr, lastCall.pre[c])

\* C4: an insertion at m < p moves an iterator at p forward by one and a removal
\* at m < p moves it back by one, so that it still points at the element it
\* pointed at before; an insertion or removal at m = p leaves it at p, where it
\* points at the inserted element, or at the successor of the removed one.
C4_BeforeMoves ==
    Mutated =>
        \A c \in Linked :
          /\ lastCall.modPos < lastCall.pre[c] =>
               /\ mPosition[c] = lastCall.pre[c] + lastCall.adj
               /\ ElemAt(mArray, mPosition[c]) = ElemAt(lastCall.preArr, lastCall.pre[c])
          /\ lastCall.modPos = lastCall.pre[c] =>
               /\ mPosition[c] = lastCall.pre[c]
               /\ ElemAt(mArray, mPosition[c]) =
                    IF lastCall.op = "InsertElementAt"
                    THEN lastCall.elem
                    ELSE ElemAt(lastCall.preArr, lastCall.pre[c] + 1)

\* A removal before an iterator that had an element left to return.
C4_Witness ==
    /\ lastCall.op = "RemoveElementAt"
    /\ \E c \in Linked :
         /\ lastCall.modPos < lastCall.pre[c]
         /\ ElemAt(mArray, mPosition[c]) # NoElem

\* C5 as claimed: after an insertion before an iterator at p the iterator is at
\* p + 1 and the next element it returns is the one that was at p + 1 (where
\* there was one).
C5_YieldsSuccessor ==
    \A c \in Linked \cap Observed :
      /\ insCtx[c].phase # "none" => insCtx[c].postPos = insCtx[c].prePos + 1
      /\ (insCtx[c].phase = "yielded" /\ insCtx[c].atP1 # NoElem) =>
           insCtx[c].elem = insCtx[c].atP1

\* C5: after an insertion before an iterator at p the iterator is at p + 1 and
\* the next element it returns is the one that was at p before the insertion,
\* which it had not returned yet (for [A,B,C] with the iterator at 1 and X
\* inserted at 0: the position becomes 2 and B is returned next).
C5_YieldsSameNext ==
    \A c \in Linked \cap Observed :
      /\ insCtx[c].phase # "none" => insCtx[c].postPos = insCtx[c].prePos + 1
      /\ insCtx[c].phase = "yielded" =>
           /\ insCtx[c].elem = insCtx[c].atP
           /\ insCtx[c].elem # NoElem
           /\ Count(insCtx[c].elem, yielded[c]) = 1

\* An iterator that returned the first of three elements, an insertion at 0,
\* then GetNext.
C5_Witness ==
    \E c \in Linked \cap Observed :
      /\ insCtx[c].phase = "yielded"
      /\ insCtx[c].prePos = 1
      /\ insCtx[c].atP1 # NoElem
      /\ mPosition[c] = 3
      /\ Len(yielded[c]) = 2

\* C7: in every state reached by insertions, removals, clears, iterator creations
\* at a position of 0..length and advances, every linked iterator's position is
\* in 0..length.
C7_InBounds ==
    \A c \in Linked : 0 <= mPosition[c] /\ mPosition[c] <= Len(mArray)

\* An iterator at the end of the array, before and after a removal.
C7_Witness ==
    /\ lastCall.op = "RemoveElementAt"
    /\ Len(mArray) > 0
    /\ \E c \in Linked :
         /\ lastCall.pre[c] = Len(lastCall.preArr)
         /\ mPosition[c] = Len(mArray)

\* C8: AdjustIterators leaves every iterator whose position is at most modPos
\* where it was; an insertion or removal strictly after an iterator's position
\* does not move the iterator.
C8_AtOrBeforeUntouched ==
    Notified =>
        \A c \in Linked :
          lastCall.pre[c] <= lastCall.modPos => mPosition[c] = lastCall.pre[c]

\* A removal strictly after an iterator that had returned an element.
C8_Witness ==
    /\ lastCall.op = "RemoveElementAt"
    /\ \E c \in Linked :
         /\ 0 < lastCall.pre[c]
         /\ lastCall.pre[c] < lastCall.modPos
         /\ mPosition[c] = lastCall.pre[c]

C14_OnlyPositions ==
    lastCall.op \in {"AdjustIterators", "ClearIterators"} =>
        /\ mIterators = lastCall.head
        /\ mNext = lastCall.next
        /\ Linked = Range(Chain(lastCall.head, lastCall.next))
        /\ Linked = live
        /\ mArray = lastCall.preArr
        /\ Len(mArray) = Len(lastCall.preArr)

\* A call moved a position of a registry of two iterators beside a full array.
C14_Witness ==
    /\ lastCall.op \in {"AdjustIterators", "ClearIterators"}
    /\ ~aborted
    /\ Cardinality(Linked) >= 2
    /\ mPosition # lastCall.pre
    /\ Len(mArray) = MaxElems

\* C15: AdjustIterators(modPos, -1) wraps no position below zero: no linked
\* iterator ends above its position before the call, and one that was decremented
\* was above modPos, hence at 1 or more, and ends one lower, at modPos or more.
C15_NoWrapBelowZero ==
    (lastCall.op = "AdjustIterators" /\ lastCall.adj = -1) =>
        \A c \in Linked :
            /\ mPosition[c] <= lastCall.pre[c]
            /\ mPosition[c] # lastCall.pre[c] =>
                 /\ lastCall.pre[c] > lastCall.modPos
                 /\ lastCall.pre[c] >= 1
                 /\ mPosition[c] = lastCall.pre[c] - 1
                 /\ mPosition[c] >= lastCall.modPos
                 /\ mPosition[c] >= 0

\* A removal at index 0 met one iterator at 0, which stays, and one at 1, which
\* ends at 0.
C15_Witness ==
    /\ lastCall.op = "AdjustIterators"
    /\ lastCall.adj = -1
    /\ lastCall.modPos = 0
    /\ \E c, d \in Linked :
         /\ lastCall.pre[c] = 0 /\ mPosition[c] = 0
         /\ lastCall.pre[d] = 1 /\ mPosition[d] = 0

\* C16: AdjustIterators(modPos, adj) with adj +1 or -1 keeps the order of the
\* positions: of two linked iterators, the one that was at or before the other
\* before the call is at or before it after the call.
C16_OrderPreserved ==
    (lastCall.op = "AdjustIterators" /\ lastCall.adj \in {1, -1} /\ ~aborted) =>
        \A c, d \in Linked :
            lastCall.pre[c] <= lastCall.pre[d] => mPosition[c] <= mPosition[d]

\* A call moved one of two iterators and not the other; a removal between two
\* adjacent positions brought them together.
C16_Witness ==
    /\ lastCall.op = "AdjustIterators"
    /\ lastCall.adj = -1
    /\ ~aborted
    /\ \E c, d \in Linked :
         /\ lastCall.pre[c] = lastCall.modPos
         /\ lastCall.pre[d] = lastCall.modPos + 1
         /\ mPosition[c] = mPosition[d]

\* The last two calls were AdjustIterators(m, 1) and then AdjustIterators(m, -1).
RoundTrip ==
    /\ lastCall.op = "AdjustIterators"
    /\ lastCall.adj = -1
    /\ lastCall.first.op = "AdjustIterators"
    /\ lastCall.first.adj = 1
    /\ lastCall.first.modPos = lastCall.modPos

\* C17: AdjustIterators(m, 1) followed by AdjustIterators(m, -1) leaves every
\* linked iterator at its position before the two calls, for every m and all
\* positions.
C17_RoundTrip ==
    RoundTrip => \A c \in Linked : mPosition[c] = lastCall.first.pre[c]

\* The pair of calls moved one iterator forth and back and left another alone.
C17_Witness ==
    /\ RoundTrip
    /\ \E c, d \in Linked :
         /\ lastCall.pre[c] = lastCall.first.pre[c] + 1
         /\ mPosition[c] = lastCall.first.pre[c]
         /\ lastCall.pre[d] = lastCall.first.pre[d]
         /\ lastCall.first.pre[d] = lastCall.modPos

\* The walk in progress has returned.
WalkDone == walk.pc = "done"

\* C13: on a registry that is a finite list without a cycle, AdjustIterators and
\* ClearIterators return, having run the loop body exactly once for every linked
\* iterator and for no other, with the positions the call leaves; the only way a
\* call fails is the assertion on the adjustment.
C13_WalkTerminates ==
    /\ [](walk.pc = "loop" => <>WalkDone)
    /\ [](\A c \in Iters : walk.visits[c] <= 1)
    /\ [](WalkDone =>
            /\ \A c \in Iters : walk.visits[c] = IF c \in Linked THEN 1 ELSE 0
            /\ mPosition =
                 IF walk.op = "AdjustIterators"
                 THEN AdjustWalk(lastCall.head, lastCall.next, lastCall.pre,
                                 lastCall.modPos, lastCall.adj)
                 ELSE ClearWalk(lastCall.head, lastCall.next, lastCall.pre))
    /\ [](aborted <=> walk.pc = "aborted")
    /\ [](aborted => (walk.op = "AdjustIterators" /\ walk.adj \notin {1, -1} /\ mozDebug))

\* A walk over two linked iterators has returned, one position written.
C13_Witness ==
    /\ WalkDone
    /\ Cardinality(Linked) >= 2
    /\ \A c \in Linked : walk.visits[c] = 1
    /\ mPosition # lastCall.pre

\* C18: for every code of the ASCII range 0..127, MaskWhitespace holds true at it
\* exactly when it is form feed, tab, carriage return, line feed or space,
\* MaskCRLF exactly when it is carriage return or line feed, MaskCRLFTab exactly
\* when it is carriage return, line feed or tab, and Mask0to9 exactly when it is
\* one of the digits '0' to '9'. The characters are written by their ASCII codes:
\* FF 12, TAB 9, CR 13, LF 10, space 32, '0'..'9' 48..57.
C18_MasksExact ==
    /\ lookup.c \in 0..127
    /\ "MaskWhitespace" \in lookup.asked =>
         (lookup.whitespace <=> lookup.c \in {12, 9, 13, 10, 32})
    /\ "MaskCRLF" \in lookup.asked =>
         (lookup.crlf <=> lookup.c \in {13, 10})
    /\ "MaskCRLFTab" \in lookup.asked =>
         (lookup.crlfTab <=> lookup.c \in {13, 10, 9})
    /\ "Mask0to9" \in lookup.asked =>
         (lookup.zeroToNine <=> lookup.c \in 48..57)

\* Form feed was looked up in all four masks: whitespace and nothing else.
C18_Witness ==
    /\ lookup.asked = {"MaskWhitespace", "MaskCRLF", "MaskCRLFTab", "Mask0to9"}
    /\ lookup.c = CharFF
    /\ lookup.whitespace
    /\ ~lookup.crlf /\ ~lookup.crlfTab /\ ~lookup.zeroToNine
====
